---- MODULE Spec2Model ----
(***************************************************************************)
(* A model of src/main.py, the checks runner: parse_checks_files loads the *)
(* check definitions and collects their placeholder tokens, main validates *)
(* every settings set with check_if_all_inputs_supplied and runs           *)
(* execute_checks on the ones that pass; execute_checks dispatches on the  *)
(* task type, task_cmd runs the shell commands, task_notes prints notes.   *)
(*                                                                         *)
(* Text is a sequence of one-character strings, so that str.format and the *)
(* INPUTS_REGEX scan are computed character by character.                  *)
(***************************************************************************)
EXTENDS Integers, Sequences, FiniteSets, TLC

VARIABLES check_files, input_sets, pc, fi, checks_confs, inputs_to_get,
          si, di, ci, cwd, saved_cwd, was_cmd_successful, out_text,
          trace, exit_status, call

\* the variables of a run of main
run_vars == <<check_files, input_sets, pc, fi, checks_confs, inputs_to_get,
              si, di, ci, cwd, saved_cwd, was_cmd_successful, out_text,
              trace, exit_status>>

vars == <<run_vars, call>>

(* ------------------------------ bounds -------------------------------- *)

\* number of check files given with -c
MaxFiles == 2

\* number of settings files given with -i
MaxSets == 2

\* number of (definition, settings file) pairs of one run
MaxDispatches == 4

(* ------------------------------- text --------------------------------- *)

\* the characters [a-zA-Z0-9_\-] of INPUTS_REGEX that occur in the model
TokenChars == {"a", "b", "0"}

Digits == {"0"}

Braces == {"{", "}"}

Whitespace == {" ", "\n"}

RECURSIVE Concat(_, _)
\* sep.join(parts)
Concat(parts, sep) ==
    IF parts = <<>> THEN <<>>
    ELSE IF Len(parts) = 1 THEN parts[1]
    ELSE parts[1] \o sep \o Concat(Tail(parts), sep)

\* "; ".join(cmds)
JoinCmds(cmds) == Concat(cmds, <<";", " ">>)

RECURSIVE LStrip(_)
LStrip(s) == IF s # <<>> /\ s[1] \in Whitespace THEN LStrip(Tail(s)) ELSE s

RECURSIVE RStrip(_)
RStrip(s) ==
    IF s # <<>> /\ s[Len(s)] \in Whitespace
    THEN RStrip(SubSeq(s, 1, Len(s) - 1)) ELSE s

\* str.strip()
Strip(s) == RStrip(LStrip(s))

\* re.findall(INPUTS_REGEX, text) collected into a set: every {token} whose
\* body is one or more token characters
findall(text) ==
    { SubSeq(text, p[1] + 1, p[2] - 1) :
        p \in { q \in (1..Len(text)) \X (1..Len(text)) :
                  /\ q[2] > q[1] + 1
                  /\ text[q[1]] = "{"
                  /\ text[q[2]] = "}"
                  /\ \A k \in (q[1] + 1)..(q[2] - 1) : text[k] \in TokenChars } }

FormatOk(out) == [ok |-> TRUE, out |-> out, err |-> "none"]

FormatErr(e) == [ok |-> FALSE, out |-> <<>>, err |-> e]

\* the first brace at or after position i of s, 0 when there is none
NextBrace(s, i) ==
    IF \E j \in i..Len(s) : s[j] \in Braces
    THEN CHOOSE j \in i..Len(s) :
            s[j] \in Braces /\ \A k \in i..(j - 1) : s[k] \notin Braces
    ELSE 0

\* the value str.format looks up for a replacement field named name, called
\* with keyword arguments only
FieldValue(name, conf) ==
    IF name = <<>> \/ \A k \in 1..Len(name) : name[k] \in Digits
    THEN FormatErr("IndexError")
    ELSE IF name \in DOMAIN conf THEN FormatOk(conf[name])
    ELSE FormatErr("KeyError")

RECURSIVE FormatFrom(_, _, _, _)
\* s.format(**conf) from position i on, acc being the text produced so far
FormatFrom(s, conf, i, acc) ==
    IF i > Len(s) THEN FormatOk(acc)
    ELSE IF s[i] \notin Braces THEN FormatFrom(s, conf, i + 1, Append(acc, s[i]))
    ELSE IF i < Len(s) /\ s[i + 1] = s[i]
         THEN FormatFrom(s, conf, i + 2, Append(acc, s[i]))
    ELSE IF s[i] = "}" \/ i = Len(s) THEN FormatErr("ValueError")
    ELSE LET close == NextBrace(s, i + 1) IN
         IF close = 0 \/ s[close] = "{" THEN FormatErr("ValueError")
         ELSE LET v == FieldValue(SubSeq(s, i + 1, close - 1), conf) IN
              IF v.ok THEN FormatFrom(s, conf, close + 1, acc \o v.out)
              ELSE v

\* sub_conf(s, conf): s.format(**conf)
sub_conf(s, conf) == FormatFrom(s, conf, 1, <<>>)

(* ------------------------------ inputs -------------------------------- *)

\* the directory the run is started in
StartDir == "start"

\* the directories os.path.isdir answers True for
ExistingDirs == {StartDir, "d"}

isdir(p) == p \in ExistingDirs

\* a task without a type / task_type entry
NoType == "None"

\* one check file: whether yaml.safe_load succeeds on it, and the task it
\* holds (type, cmds, dir, notes); cmds and notes are lists of templates
CheckFile(parses, has_task, type, cmds, dir, notes) ==
    [parses |-> parses, has_task |-> has_task, type |-> type,
     cmds |-> cmds, cmd_dir |-> dir, notes |-> notes]

T_x == <<"x">>

T_a == <<"{", "a", "}">>

T_b == <<"{", "b", "}">>

\* a field str.format resolves (key "a ") and INPUTS_REGEX does not match
T_a_sp == <<"{", "a", " ", "}">>

\* an automatically numbered field
T_auto == <<"{", "}">>

\* the check files a run is given
CheckFiles ==
    { CheckFile(TRUE, TRUE, "cmd", <<T_a, T_x>>, "d", <<T_a>>),
      CheckFile(TRUE, TRUE, "cmd", <<T_x>>, "nodir", <<T_x>>),
      CheckFile(TRUE, TRUE, "cmd", <<T_a_sp>>, "d", <<T_x>>),
      CheckFile(TRUE, TRUE, "cmd", <<>>, "d", <<>>),
      CheckFile(TRUE, TRUE, "notes", <<>>, "", <<T_x, T_b>>),
      CheckFile(TRUE, TRUE, "notes", <<>>, "", <<T_x, T_a_sp>>),
      CheckFile(TRUE, TRUE, "CMD", <<T_x>>, "", <<T_x>>),
      CheckFile(TRUE, TRUE, "Notes", <<>>, "", <<T_x>>),
      CheckFile(TRUE, TRUE, "bogus", <<>>, "", <<T_auto>>),
      CheckFile(TRUE, TRUE, NoType, <<T_x>>, "", <<T_x>>),
      CheckFile(TRUE, FALSE, NoType, <<>>, "", <<>>),
      CheckFile(FALSE, FALSE, NoType, <<T_b>>, "", <<>>) }

\* the literal contents of a check file: the templates it is written with,
\* one per line
RawText(f) == Concat(f.cmds \o f.notes, <<"\n">>)

\* the keys a settings file may define, each with the value "v"
SettingsKeys == {<<"a">>, <<"b">>}

SettingsFiles == { [k \in K |-> <<"v">>] : K \in {{}, {<<"a">>}, SettingsKeys} }

\* what the shell may write to stdout/stderr
RawOutputs == {<<"o", "\n">>}

SeqsUpTo(S, n) == UNION { [1..k -> S] : k \in 0..n }

(* ------------------------------- trace -------------------------------- *)

\* one line on the reporting sink, or one call: what it is, the settings
\* set and definition being processed (0 when none), its text and the
\* working directory of the process at that moment
Event(ev, s, d, arg) == [ev |-> ev, set |-> s, def |-> d, arg |-> arg, dir |-> cwd]

Events(ev, s, d) ==
    { k \in 1..Len(trace) :
        trace[k].ev = ev /\ trace[k].set = s /\ trace[k].def = d }

\* the orders in which a set may be iterated
Orders(S) ==
    { o \in [1..Cardinality(S) -> S] : \A t \in S : \E k \in DOMAIN o : o[k] = t }

(* -------------------------------- run --------------------------------- *)

\* no function is being called on its own: main is running
NoCall == [fn |-> "main", at |-> "none", args |-> <<>>, locals |-> <<>>, log |-> <<>>]

Init ==
    /\ call = NoCall
    /\ check_files \in SeqsUpTo(CheckFiles, MaxFiles)
    /\ input_sets \in SeqsUpTo(SettingsFiles, MaxSets)
    /\ Len(check_files) * Len(input_sets) <= MaxDispatches
    /\ pc = "parse_checks_files"
    /\ fi = 1
    /\ checks_confs = <<>>
    /\ inputs_to_get = {}
    /\ si = 1
    /\ di = 1
    /\ ci = 1
    /\ cwd = StartDir
    /\ saved_cwd = StartDir
    /\ was_cmd_successful = FALSE
    /\ out_text = <<>>
    /\ trace = <<>>
    /\ exit_status = <<>>

\* the definition execute_checks is at
CurFile == check_files[checks_confs[di]]

\* the settings set main is at
CurSettings == input_sets[si]

\* parse_checks_files, one check file: the tokens of its text are added to
\* all_inputs, then the file is parsed and kept when parsing succeeds
ParseChecksFile ==
    /\ pc = "parse_checks_files"
    /\ fi <= Len(check_files)
    /\ inputs_to_get' = inputs_to_get \cup findall(RawText(check_files[fi]))
    /\ IF check_files[fi].parses
       THEN /\ checks_confs' = Append(checks_confs, fi)
            /\ UNCHANGED trace
       ELSE /\ trace' = Append(trace, Event("error_parse", 0, fi, <<>>))
            /\ UNCHANGED checks_confs
    /\ fi' = fi + 1
    /\ UNCHANGED <<call, check_files, input_sets, pc, si, di, ci, cwd, saved_cwd,
                   was_cmd_successful, out_text, exit_status>>

\* parse_checks_files returns
ParseChecksReturn ==
    /\ pc = "parse_checks_files"
    /\ fi > Len(check_files)
    /\ pc' = "main"
    /\ UNCHANGED <<call, check_files, input_sets, fi, checks_confs, inputs_to_get,
                   si, di, ci, cwd, saved_cwd, was_cmd_successful, out_text,
                   trace, exit_status>>

\* check_if_all_inputs_supplied: the inputs that are reported as missing
MissingInputs(inputs, settings) == { t \in inputs : t \notin DOMAIN settings }

\* check_if_all_inputs_supplied returning True as soon as one input is supplied
check_if_any_input_supplied(inputs, settings) ==
    inputs = {} \/ \E t \in inputs : t \in DOMAIN settings

\* check_if_all_inputs_supplied: its return value
check_if_all_inputs_supplied(inputs, settings) ==
    \A t \in inputs : t \in DOMAIN settings

RECURSIVE MissingErrors(_, _)
MissingErrors(order, s) ==
    IF order = <<>> THEN <<>>
    ELSE <<Event("error_input", s, 0, order[1])>> \o MissingErrors(Tail(order), s)

\* main, one settings file: validate it, and start execute_checks on it
\* when every input is supplied
Main ==
    /\ pc = "main"
    /\ si <= Len(input_sets)
    /\ \E order \in Orders(MissingInputs(inputs_to_get, CurSettings)) :
         IF check_if_all_inputs_supplied(inputs_to_get, CurSettings)
         THEN /\ trace' = Append(trace, Event("separator", si, 0, <<>>))
              /\ pc' = "execute_checks"
              /\ di' = 1
              /\ UNCHANGED si
         ELSE /\ trace' = trace \o MissingErrors(order, si)
              /\ si' = si + 1
              /\ UNCHANGED <<pc, di>>
    /\ UNCHANGED <<call, check_files, input_sets, fi, checks_confs, inputs_to_get,
                   ci, cwd, saved_cwd, was_cmd_successful, out_text,
                   exit_status>>

\* main returning 1 when no settings file was validated
MainReturnValueByValidation ==
    IF \E k \in 1..Len(trace) : trace[k].ev = "separator" /\ trace[k].def = 0
    THEN 0 ELSE 1

\* the value main returns
MainReturnValue == 0

\* main returns 0
MainReturn ==
    /\ pc = "main"
    /\ si > Len(input_sets)
    /\ pc' = "Done"
    /\ exit_status' = <<MainReturnValue>>
    /\ UNCHANGED <<call, check_files, input_sets, fi, checks_confs, inputs_to_get,
                   si, di, ci, cwd, saved_cwd, was_cmd_successful, out_text,
                   trace>>

\* str.lower() on the task types of the model
Lower(task_type) ==
    CASE task_type \in {"CMD", "Cmd"} -> "cmd"
      [] task_type \in {"NOTES", "Notes"} -> "notes"
      [] OTHER -> task_type

\* the type test of execute_checks made on the lower-cased type
IsCmdTypeAnyCase(task_type) == Lower(task_type) = "cmd"

\* execute_checks: the test that sends a task to task_cmd
IsCmdType(task_type) == task_type = "cmd"

\* execute_checks: the test that makes a task a notes-only task
IsNotesType(task_type) == task_type = "notes"

\* execute_checks treating a definition without task as one of unknown type
ExecuteCheckWithoutTaskGuard ==
    /\ pc = "execute_checks"
    /\ di <= Len(checks_confs)
    /\ LET started == Append(trace, Event("dispatch", si, di, <<>>)) IN
       IF CurFile.has_task /\ IsCmdType(CurFile.type)
       THEN /\ trace' = started
            /\ pc' = "task_cmd"
       ELSE IF CurFile.has_task /\ IsNotesType(CurFile.type)
       THEN /\ trace' = started
            /\ pc' = "task_notes"
       ELSE /\ trace' = Append(started, Event("error_type", si, di, <<>>))
            /\ pc' = "task_notes"
    /\ UNCHANGED <<call, check_files, input_sets, fi, checks_confs,
                   inputs_to_get, si, di, ci, cwd, saved_cwd,
                   was_cmd_successful, out_text, exit_status>>

\* execute_checks, one definition up to the branch on the task type: a
\* cmd task goes to task_cmd, a notes task straight to its notes, any other
\* type is an error; a definition without task only prints the separator
ExecuteCheck ==
    /\ pc = "execute_checks"
    /\ di <= Len(checks_confs)
    /\ LET started == Append(trace, Event("dispatch", si, di, <<>>)) IN
       IF ~CurFile.has_task
       THEN /\ trace' = Append(started, Event("separator", si, di, <<>>))
            /\ di' = di + 1
            /\ UNCHANGED pc
       ELSE IF IsCmdType(CurFile.type)
       THEN /\ trace' = started
            /\ pc' = "task_cmd"
            /\ UNCHANGED di
       ELSE IF IsNotesType(CurFile.type)
       THEN /\ trace' = started
            /\ pc' = "task_notes"
            /\ UNCHANGED di
       ELSE /\ trace' = Append(started, Event("error_type", si, di, <<>>))
            /\ pc' = "task_notes"
            /\ UNCHANGED di
    /\ UNCHANGED <<call, check_files, input_sets, fi, checks_confs, inputs_to_get,
                   si, ci, cwd, saved_cwd, was_cmd_successful, out_text,
                   exit_status>>

\* execute_checks returns to the loop of main
ExecuteChecksReturn ==
    /\ pc = "execute_checks"
    /\ di > Len(checks_confs)
    /\ pc' = "main"
    /\ si' = si + 1
    /\ UNCHANGED <<call, check_files, input_sets, fi, checks_confs, inputs_to_get,
                   di, ci, cwd, saved_cwd, was_cmd_successful, out_text,
                   trace, exit_status>>

\* task_cmd giving up when cmd_dir is not a directory
TaskCmdBeginStopsOnMissingDir ==
    /\ pc = "task_cmd"
    /\ was_cmd_successful' = FALSE
    /\ out_text' = <<>>
    /\ LET called == Append(trace, Event("task_cmd", si, di, <<>>)) IN
       IF CurFile.cmds = <<>>
       THEN /\ trace' = Append(called, Event("error_no_cmds", si, di, <<>>))
            /\ pc' = "cmd_return"
            /\ UNCHANGED <<cwd, saved_cwd, ci>>
       ELSE IF CurFile.cmd_dir # "" /\ ~isdir(CurFile.cmd_dir)
       THEN /\ trace' = Append(called, Event("error_dir", si, di, <<>>))
            /\ pc' = "cmd_return"
            /\ UNCHANGED <<cwd, saved_cwd, ci>>
       ELSE /\ saved_cwd' = cwd
            /\ cwd' = (IF CurFile.cmd_dir # "" THEN CurFile.cmd_dir ELSE cwd)
            /\ trace' = called
            /\ ci' = 1
            /\ pc' = "cmd_loop"
    /\ UNCHANGED <<call, check_files, input_sets, fi, checks_confs,
                   inputs_to_get, si, di, exit_status>>

\* task_cmd up to its loop: without cmds it reports and returns; otherwise it
\* saves the working directory and enters cmd_dir when that is a directory
TaskCmdBegin ==
    /\ pc = "task_cmd"
    /\ was_cmd_successful' = FALSE
    /\ out_text' = <<>>
    /\ LET called == Append(trace, Event("task_cmd", si, di, <<>>)) IN
       IF CurFile.cmds = <<>>
       THEN /\ trace' = Append(called, Event("error_no_cmds", si, di, <<>>))
            /\ pc' = "cmd_return"
            /\ UNCHANGED <<cwd, saved_cwd, ci>>
       ELSE /\ saved_cwd' = cwd
            /\ IF CurFile.cmd_dir # "" /\ isdir(CurFile.cmd_dir)
               THEN cwd' = CurFile.cmd_dir
               ELSE UNCHANGED cwd
            /\ IF CurFile.cmd_dir # "" /\ ~isdir(CurFile.cmd_dir)
               THEN trace' = Append(called, Event("error_dir", si, di, <<>>))
               ELSE trace' = called
            /\ ci' = 1
            /\ pc' = "cmd_loop"
    /\ UNCHANGED <<call, check_files, input_sets, fi, checks_confs, inputs_to_get,
                   si, di, exit_status>>

\* task_cmd, one iteration of "for c in cmds": the joined command line is
\* substituted and handed to the shell; a fault of the substitution or of
\* the shell is caught and reported with the line c
TaskCmdIter ==
    /\ pc = "cmd_loop"
    /\ ci <= Len(CurFile.cmds)
    /\ LET r == sub_conf(JoinCmds(CurFile.cmds), CurSettings) IN
       IF ~r.ok
       THEN /\ trace' = Append(trace, Event("error_exec", si, di, CurFile.cmds[ci]))
            /\ UNCHANGED <<was_cmd_successful, out_text>>
       ELSE \/ \E raw \in RawOutputs :
                 /\ trace' = Append(trace, Event("popen", si, di, r.out))
                 /\ out_text' = Strip(raw)
                 /\ was_cmd_successful' = TRUE
            \/ /\ trace' = trace \o <<Event("popen", si, di, r.out),
                                      Event("error_exec", si, di, CurFile.cmds[ci])>>
               /\ UNCHANGED <<was_cmd_successful, out_text>>
    /\ ci' = ci + 1
    /\ UNCHANGED <<call, check_files, input_sets, pc, fi, checks_confs,
                   inputs_to_get, si, di, cwd, saved_cwd, exit_status>>

\* task_cmd switching back only after a command that ran
RestoredDirOnSuccess(cmd_dir, saved, current) ==
    IF cmd_dir # "" /\ was_cmd_successful THEN saved ELSE current

\* task_cmd after its loop: the working directory after "if cmd_dir:
\* os.chdir(cwd)"
RestoredDir(cmd_dir, saved, current) == IF cmd_dir # "" THEN saved ELSE current

\* task_cmd leaves its loop and switches back to the saved directory
TaskCmdEnd ==
    /\ pc = "cmd_loop"
    /\ ci > Len(CurFile.cmds)
    /\ cwd' = RestoredDir(CurFile.cmd_dir, saved_cwd, cwd)
    /\ pc' = "cmd_return"
    /\ UNCHANGED <<call, check_files, input_sets, fi, checks_confs, inputs_to_get,
                   si, di, ci, saved_cwd, was_cmd_successful, out_text,
                   trace, exit_status>>

\* execute_checks printing the notes only of a command that ran
TaskCmdReturnNotesOnSuccess ==
    /\ pc = "cmd_return"
    /\ IF was_cmd_successful
       THEN /\ trace' = Append(trace, Event("info_output", si, di, out_text))
            /\ pc' = "task_notes"
            /\ UNCHANGED di
       ELSE /\ trace' = trace \o <<Event("info_output", si, di, out_text),
                                   Event("separator", si, di, <<>>)>>
            /\ pc' = "execute_checks"
            /\ di' = di + 1
    /\ UNCHANGED <<call, check_files, input_sets, fi, checks_confs, inputs_to_get,
                   si, ci, cwd, saved_cwd, was_cmd_successful, out_text,
                   exit_status>>

\* task_cmd has returned to execute_checks, which prints the output
TaskCmdReturn ==
    /\ pc = "cmd_return"
    /\ trace' = Append(trace, Event("info_output", si, di, out_text))
    /\ pc' = "task_notes"
    /\ UNCHANGED <<call, check_files, input_sets, fi, checks_confs, inputs_to_get,
                   si, di, ci, cwd, saved_cwd, was_cmd_successful, out_text,
                   exit_status>>

\* task_notes: the first note whose substitution raises, 0 when none does
FirstBadNote(notes, conf) ==
    IF \E k \in 1..Len(notes) : ~sub_conf(notes[k], conf).ok
    THEN CHOOSE k \in 1..Len(notes) :
            /\ ~sub_conf(notes[k], conf).ok
            /\ \A j \in 1..(k - 1) : sub_conf(notes[j], conf).ok
    ELSE 0

\* task_notes: the warnings printed for the notes 1..n
NoteWarnings(notes, conf, n, s, d) ==
    [k \in 1..n |-> Event("warning", s, d, sub_conf(notes[k], conf).out)]

\* the notes of the definition are printed by task_notes, each substituted;
\* a substitution that raises is not caught anywhere and ends the run,
\* otherwise execute_checks prints the separator and goes on
TaskNotes ==
    /\ pc = "task_notes"
    /\ LET notes == CurFile.notes
           bad == FirstBadNote(notes, CurSettings)
           called == Append(trace, Event("task_notes", si, di, <<>>))
       IN IF bad # 0
          THEN /\ trace' = called \o NoteWarnings(notes, CurSettings, bad - 1, si, di)
               /\ pc' = "Crashed"
               /\ exit_status' = <<1>>
               /\ UNCHANGED di
          ELSE /\ trace' = called
                    \o NoteWarnings(notes, CurSettings, Len(notes), si, di)
                    \o (IF notes = <<>> THEN <<>>
                        ELSE <<Event("warning", si, di, <<>>),
                               Event("warning", si, di, <<>>)>>)
                    \o <<Event("separator", si, di, <<>>)>>
               /\ pc' = "execute_checks"
               /\ di' = di + 1
               /\ UNCHANGED exit_status
    /\ UNCHANGED <<call, check_files, input_sets, fi, checks_confs, inputs_to_get,
                   si, ci, cwd, saved_cwd, was_cmd_successful, out_text>>

Next ==
    \/ ParseChecksFile
    \/ ParseChecksReturn
    \/ Main
    \/ MainReturn
    \/ ExecuteCheck
    \/ ExecuteChecksReturn
    \/ TaskCmdBegin
    \/ TaskCmdIter
    \/ TaskCmdEnd
    \/ TaskCmdReturn
    \/ TaskNotes

Spec == Init /\ [][Next]_vars

(* ------------------------------ properties ---------------------------- *)

SetIds == 1..Len(input_sets)

DefIds == 1..Len(checks_confs)

\* the definition loaded at position d
Def(d) == check_files[checks_confs[d]]

\* the tokens of the check files that were loaded
LoadedTokens == UNION { findall(RawText(Def(d))) : d \in DefIds }

Keys(s) == DOMAIN input_sets[s]

\* the settings sets main has started execute_checks on
Validated(s) == Events("separator", s, 0) # {}

\* the run is over, by the return of main or by an unhandled exception
Terminated == pc \in {"Done", "Crashed"}

\* execute_checks is between the dispatch of (s, d) and its notes
TaskStepRunning(s, d) ==
    s = si /\ d = di /\ pc \in {"task_cmd", "cmd_loop", "cmd_return", "task_notes"}

\* the events of the task step of a definition
TaskStepEvents ==
    {"dispatch", "error_type", "task_cmd", "error_no_cmds", "error_dir",
     "popen", "error_exec", "info_output"}

\* C1: a settings set that lacks a token of the loaded definitions has
\* nothing run against it (the only lines about it are the errors for its
\* missing inputs), and once main has passed it every token it lacks has
\* been reported
C1_SkippedEntirely ==
    \A s \in SetIds :
        LoadedTokens \ Keys(s) # {} =>
            /\ \A k \in 1..Len(trace) :
                   trace[k].set = s => trace[k].ev = "error_input"
            /\ s < si =>
                   \A t \in LoadedTokens \ Keys(s) :
                       \E k \in Events("error_input", s, 0) : trace[k].arg = t

\* a run that ended with one settings set skipped for two missing tokens,
\* both reported, and another settings set executed
C1_Witness ==
    /\ pc = "Done"
    /\ \E s \in SetIds :
          /\ Cardinality(LoadedTokens \ Keys(s)) = 2
          /\ Cardinality(Events("error_input", s, 0)) = 2
    /\ \E s \in SetIds, d \in DefIds : Events("task_notes", s, d) # {}

\* C2: when the run is over, every loaded definition has been dispatched
\* against every settings set that passed validation
C2_EveryDefinitionDispatched ==
    Terminated =>
        \A s \in SetIds, d \in DefIds :
            inputs_to_get \subseteq Keys(s) => Events("dispatch", s, d) # {}

\* C3: outside the loop of task_cmd the working directory is the one the
\* run started in, so every dispatch and every call of task_cmd sees it
C3_WorkingDirRestored ==
    /\ pc # "cmd_loop" => cwd = StartDir
    /\ \A k \in 1..Len(trace) :
           trace[k].ev \in {"dispatch", "task_cmd", "task_notes"}
               => trace[k].dir = StartDir

\* task_cmd is about to return after a shell invocation inside cmd_dir that
\* raised, with no command having succeeded
C3_Witness ==
    /\ pc = "cmd_return"
    /\ ~was_cmd_successful
    /\ \E k \in Events("popen", si, di) : trace[k].dir # StartDir
    /\ Events("error_exec", si, di) # {}
    /\ cwd = StartDir

\* C4: a call of task_cmd with at least one command line makes exactly one
\* shell invocation when the joined line substitutes, and never more
C4_OneShellInvocation ==
    (pc = "cmd_return" /\ CurFile.cmds # <<>>) =>
        Cardinality(Events("popen", si, di)) =
            (IF sub_conf(JoinCmds(CurFile.cmds), CurSettings).ok THEN 1 ELSE 0)

\* C5: a substitution that raises, in a command line or in a note, never
\* ends the run with an unhandled exception
C5_SubstitutionErrorRecoverable ==
    \A s \in SetIds, d \in DefIds :
        (/\ Events("task_notes", s, d) # {}
         /\ \E k \in 1..Len(Def(d).notes) :
                ~sub_conf(Def(d).notes[k], input_sets[s]).ok)
            => pc # "Crashed"

\* C6 as claimed: once the task step of a definition is over, a type that
\* is a case variant of 'cmd' has been run by task_cmd and a type that is a
\* case variant of 'notes' has not been reported as an error
C6_CaseInsensitiveKind ==
    \A s \in SetIds, d \in DefIds :
        Events("task_notes", s, d) # {} =>
            /\ Lower(Def(d).type) = "cmd" => Events("task_cmd", s, d) # {}
            /\ Lower(Def(d).type) = "notes" => Events("error_type", s, d) = {}

\* C6 amended: the type is matched by exact comparison; once the task step
\* of a definition is over, task_cmd has been called exactly when the type
\* is 'cmd', and the type has been reported as an error exactly when it is
\* neither 'cmd' nor 'notes', case variants included
C6_ExactKind ==
    \A s \in SetIds, d \in DefIds :
        Events("task_notes", s, d) # {} =>
            /\ Events("task_cmd", s, d) # {} <=> Def(d).type = "cmd"
            /\ Events("error_type", s, d) # {} <=> Def(d).type \notin {"cmd", "notes"}

\* a definition of type 'CMD' and one of type 'Notes' have been dispatched:
\* both were reported as errors and task_cmd was not called
C6_Witness ==
    /\ \E s \in SetIds, d \in DefIds :
          /\ Def(d).type = "CMD"
          /\ Events("error_type", s, d) # {}
          /\ Events("task_cmd", s, d) = {}
          /\ Events("separator", s, d) # {}
    /\ \E s \in SetIds, d \in DefIds :
          /\ Def(d).type = "Notes"
          /\ Events("error_type", s, d) # {}

\* C7: a dispatched definition whose type is neither 'cmd' nor 'notes' is
\* reported as an error, task_cmd is not called for it, and when the run is
\* over execute_checks has finished it and gone on
C7_UnrecognizedKindProceeds ==
    \A s \in SetIds, d \in DefIds :
        (/\ Events("dispatch", s, d) # {}
         /\ Def(d).has_task
         /\ Lower(Def(d).type) \notin {"cmd", "notes"})
            => /\ Events("error_type", s, d) # {}
               /\ Events("task_cmd", s, d) = {}
               /\ Events("popen", s, d) = {}
               /\ Terminated => Events("separator", s, d) # {}

\* C8: for every dispatched definition with a task, task_notes is called
\* once: not yet while the task step is running, exactly once from then on,
\* after every event of the task step and before every note of it
C8_NotesOnceAfterTask ==
    \A s \in SetIds, d \in DefIds :
        (Events("dispatch", s, d) # {} /\ Def(d).has_task) =>
            LET calls == Events("task_notes", s, d) IN
            /\ Cardinality(calls) = (IF TaskStepRunning(s, d) THEN 0 ELSE 1)
            /\ \A c \in calls, k \in 1..Len(trace) :
                   (trace[k].set = s /\ trace[k].def = d) =>
                       /\ trace[k].ev \in TaskStepEvents => k < c
                       /\ trace[k].ev = "warning" => k > c

\* a command task whose every invocation failed, a task of unrecognized
\* type and a notes task have all had their notes printed
C8_Witness ==
    /\ \E s \in SetIds, d \in DefIds :
          /\ Def(d).type = "cmd"
          /\ Events("error_exec", s, d) # {}
          /\ \E k \in Events("info_output", s, d) : trace[k].arg = <<>>
          /\ \E k \in Events("warning", s, d) : trace[k].arg = T_x
    /\ \E s \in SetIds, d \in DefIds :
          /\ Def(d).type \in {NoType, "notes"}
          /\ \E k \in Events("warning", s, d) : trace[k].arg = T_x

\* C9: after loading, the required tokens are those of the loaded files
\* only, and a settings set main has passed that has every token of the
\* loaded files was validated
C9_UnparsableFileExcluded ==
    pc # "parse_checks_files" =>
        /\ inputs_to_get = LoadedTokens
        /\ \A s \in SetIds :
               (s < si /\ LoadedTokens \subseteq Keys(s)) => Validated(s)

\* C10 as claimed: a run that ends in Done has status 0 exactly when a
\* definition was loaded and a settings set was validated and executed
C10_StatusReflectsExecution ==
    pc = "Done" =>
        (exit_status = <<0>>
            <=> (checks_confs # <<>> /\ \E s \in SetIds : Validated(s)))

\* C10 amended: a run that ends in Done has status 0, whatever was loaded
\* or validated
C10_DoneStatusZero ==
    pc = "Done" => exit_status = <<0>>

\* a run with settings sets, none of them validated, ended in Done with
\* status 0
C10_Witness ==
    /\ pc = "Done"
    /\ input_sets # <<>>
    /\ checks_confs # <<>>
    /\ \A s \in SetIds : ~Validated(s)
    /\ exit_status = <<0>>

(* ------------------------- task_web_request --------------------------- *)

\* the run variables while a function is called on its own
RunIdle ==
    /\ check_files = <<>>
    /\ input_sets = <<>>
    /\ pc = "not_running"
    /\ fi = 1
    /\ checks_confs = <<>>
    /\ inputs_to_get = {}
    /\ si = 1
    /\ di = 1
    /\ ci = 1
    /\ cwd = StartDir
    /\ saved_cwd = StartDir
    /\ was_cmd_successful = FALSE
    /\ out_text = <<>>
    /\ trace = <<>>
    /\ exit_status = <<>>

\* the URLs task_web_request is called with
WebUrls == {T_x, T_a, T_a_sp}

\* the data and user_headers mappings task_web_request is called with: the
\* empty mapping, and mappings of one entry
WebMaps == { [k \in K |-> T_a] : K \in {{}, {T_x}, {T_b}} } \cup { [k \in {T_x} |-> T_x] }

\* what the server may answer
Responses == { [status |-> 200, text |-> <<"o">>], [status |-> 404, text |-> <<>>] }

\* sub_conf(dk) and sub_conf(dv): sub_conf called without its conf argument
sub_conf_without_conf(s) == FormatErr("TypeError")

\* every key and value of the user headers substitutes
HeadersSubstitute(user_headers, conf) ==
    \A k \in DOMAIN user_headers :
        sub_conf(k, conf).ok /\ sub_conf(user_headers[k], conf).ok

\* every key and value of the data substitutes, as the code calls sub_conf
DataSubstitutes(data) ==
    \A k \in DOMAIN data :
        sub_conf_without_conf(k).ok /\ sub_conf_without_conf(data[k]).ok

WebLocals(ok, status, text, method, response) ==
    [was_request_successful |-> ok, status_code |-> status, resp_text |-> text,
     method |-> method, r |-> response]

InitWeb ==
    /\ RunIdle
    /\ \E url \in WebUrls, conf \in SettingsFiles, data \in WebMaps,
          user_headers \in WebMaps :
         call = [fn |-> "task_web_request", at |-> "try",
                 args |-> [url |-> url, conf |-> conf, data |-> data,
                           user_headers |-> user_headers],
                 locals |-> WebLocals(FALSE, 0, <<>>, "none", <<>>),
                 log |-> <<>>]

\* task_web_request up to the request: the URL, the headers and the data
\* are substituted; an exception goes to the except clause, which reports it
WebPrepare ==
    /\ call.fn = "task_web_request"
    /\ call.at = "try"
    /\ IF /\ sub_conf(call.args.url, call.args.conf).ok
          /\ HeadersSubstitute(call.args.user_headers, call.args.conf)
          /\ DataSubstitutes(call.args.data)
       THEN call' = [call EXCEPT
                       !.at = "send",
                       !.locals.method =
                           IF DOMAIN call.args.data # {} THEN "POST" ELSE "GET"]
       ELSE call' = [call EXCEPT
                       !.at = "return",
                       !.log = Append(@, [ev |-> "error", arg |-> call.args.url])]
    /\ UNCHANGED run_vars

\* requests.post / requests.get: a response comes back, or the call raises
WebSend ==
    /\ call.fn = "task_web_request"
    /\ call.at = "send"
    /\ LET sent == Append(call.log,
                      [ev |-> call.locals.method,
                       arg |-> sub_conf(call.args.url, call.args.conf).out])
       IN \/ \E r \in Responses :
                call' = [call EXCEPT !.at = "read", !.log = sent, !.locals.r = r]
          \/ call' = [call EXCEPT
                        !.at = "return",
                        !.log = Append(sent, [ev |-> "error", arg |-> call.args.url])]
    /\ UNCHANGED run_vars

\* task_web_request marking only a response of status 200 successful
WebReadMarksBadStatus ==
    /\ call.fn = "task_web_request"
    /\ call.at = "read"
    /\ call' = [call EXCEPT
                  !.at = "return",
                  !.locals.status_code = call.locals.r.status,
                  !.locals.resp_text = call.locals.r.text,
                  !.locals.was_request_successful = (call.locals.r.status = 200)]
    /\ UNCHANGED run_vars

\* the status code and the text of the response are taken, and the request
\* is marked successful
WebRead ==
    /\ call.fn = "task_web_request"
    /\ call.at = "read"
    /\ call' = [call EXCEPT
                  !.at = "return",
                  !.locals.status_code = call.locals.r.status,
                  !.locals.resp_text = call.locals.r.text,
                  !.locals.was_request_successful = TRUE]
    /\ UNCHANGED run_vars

NextWeb ==
    \/ WebPrepare
    \/ WebSend
    \/ WebRead

SpecWeb == InitWeb /\ [][NextWeb]_vars

\* the requests task_web_request has made
WebRequests == { k \in 1..Len(call.log) : call.log[k].ev \in {"GET", "POST"} }

\* C11: a call of task_web_request whose URL, headers and data have
\* resolving values makes exactly one request, a POST when data is not empty
\* and a GET when it is
C11_OneRequestByData ==
    (/\ call.at = "return"
     /\ sub_conf(call.args.url, call.args.conf).ok
     /\ HeadersSubstitute(call.args.user_headers, call.args.conf)
     /\ \A k \in DOMAIN call.args.data :
            sub_conf(k, call.args.conf).ok
                /\ sub_conf(call.args.data[k], call.args.conf).ok)
        => /\ Cardinality(WebRequests) = 1
           /\ \A k \in WebRequests :
                  call.log[k].ev =
                      (IF DOMAIN call.args.data # {} THEN "POST" ELSE "GET")

\* C12: task_web_request returns success=false only with status 0 and an
\* empty body, and success=true only with the status and the text of the
\* response it received
C12_FailureHasNoStatus ==
    call.at = "return" =>
        IF call.locals.was_request_successful
        THEN /\ call.locals.r \in Responses
             /\ call.locals.status_code = call.locals.r.status
             /\ call.locals.resp_text = call.locals.r.text
             /\ Cardinality(WebRequests) = 1
        ELSE /\ call.locals.status_code = 0
             /\ call.locals.resp_text = <<>>
             /\ call.log # <<>>
             /\ call.log[Len(call.log)].ev = "error"

\* a request was sent and raised: task_web_request returns failure
C12_Witness ==
    /\ call.at = "return"
    /\ ~call.locals.was_request_successful
    /\ WebRequests # {}
    /\ call.locals.status_code = 0

(* ----------------------- properties of the run ------------------------ *)

\* the events of the run that belong to the definition d under the set s
EventsOf(s, d) == { k \in 1..Len(trace) : trace[k].set = s /\ trace[k].def = d }

\* task_cmd is inside its loop for (s, d)
InCmdLoop(s, d) == s = si /\ d = di /\ pc = "cmd_loop"

\* C13: when task_cmd returns after an invocation that raised, it returns
\* success=false; it returns success=true only after a shell invocation
\* whose output it holds
C13_FaultGivesFailure ==
    pc = "cmd_return" =>
        /\ Events("error_exec", si, di) # {} => ~was_cmd_successful
        /\ was_cmd_successful =>
               /\ Events("popen", si, di) # {}
               /\ \E raw \in RawOutputs : out_text = Strip(raw)

\* C17: a command task whose cmd_dir is not a directory: the error is
\* reported once, everything task_cmd does for it happens in the start
\* directory, the command is handed to the shell there whenever its line
\* substitutes, and the run does not end before task_cmd has returned
C17_MissingDirStillRuns ==
    \A s \in SetIds, d \in DefIds :
        (/\ Events("task_cmd", s, d) # {}
         /\ Def(d).cmds # <<>>
         /\ Def(d).cmd_dir # ""
         /\ ~isdir(Def(d).cmd_dir))
            => /\ Cardinality(Events("error_dir", s, d)) = 1
               /\ \A k \in EventsOf(s, d) : trace[k].dir = StartDir
               /\ InCmdLoop(s, d) => cwd = StartDir
               /\ (~InCmdLoop(s, d)
                     /\ sub_conf(JoinCmds(Def(d).cmds), input_sets[s]).ok)
                      => Events("popen", s, d) # {}
               /\ (s = si /\ d = di /\ pc = "Crashed")
                      => Events("info_output", s, d) # {}

\* task_cmd is about to return from a task with a missing cmd_dir: it
\* reported the directory and ran the command in the start directory
C17_Witness ==
    /\ pc = "cmd_return"
    /\ CurFile.cmd_dir = "nodir"
    /\ Events("error_dir", si, di) # {}
    /\ \E k \in Events("popen", si, di) : trace[k].dir = StartDir
    /\ was_cmd_successful
    /\ cwd = StartDir

\* the dispatches of the run, in the order they were made
Dispatches == { k \in 1..Len(trace) : trace[k].ev = "dispatch" }

\* C18: the dispatches are made in the order of the settings sets and, within
\* one settings set, in load order, none twice; the events of a definition
\* all come before the next dispatch; and when the run is over there is one
\* dispatch for every validated settings set and every loaded definition
C18_SequentialOrder ==
    /\ \A j, k \in Dispatches :
           j < k => \/ trace[j].set < trace[k].set
                    \/ trace[j].set = trace[k].set /\ trace[j].def < trace[k].def
    /\ \A j \in Dispatches, k \in 1..Len(trace) :
           (trace[k].set = trace[j].set /\ trace[k].def = trace[j].def /\ k # j)
               => /\ j < k
                  /\ \A m \in Dispatches : m > j => m > k
    /\ Terminated =>
           Cardinality(Dispatches) =
               Cardinality({ s \in SetIds : Validated(s) }) * Len(checks_confs)

\* C19: a dispatched definition without task leaves two events only: its
\* dispatch and, right after it, the separator
C19_NoTaskOnlySeparator ==
    \A s \in SetIds, d \in DefIds :
        (Events("dispatch", s, d) # {} /\ ~Def(d).has_task) =>
            \E k \in 1..(Len(trace) - 1) :
                /\ EventsOf(s, d) = {k, k + 1}
                /\ trace[k].ev = "dispatch"
                /\ trace[k + 1].ev = "separator"
                /\ ~(s = si /\ d = di)

\* a definition without task was dispatched first and the next definition
\* was dispatched after it
C19_Witness ==
    \E s \in SetIds :
        /\ Len(checks_confs) = 2
        /\ ~Def(1).has_task
        /\ Events("dispatch", s, 1) # {}
        /\ Events("separator", s, 1) # {}
        /\ Events("dispatch", s, 2) # {}

(* -------------------- check_if_all_inputs_supplied --------------------- *)

\* the tokens the function is called with
Tokens == {<<"a">>, <<"b">>, <<"0">>}

\* the inputs list, list(all_inputs): distinct tokens in any order
InputLists == UNION { Orders(S) : S \in SUBSET Tokens }

\* the settings mappings the function is called with
SettingsOver == { [k \in K |-> <<"v">>] : K \in SUBSET Tokens }

InitValidate ==
    /\ RunIdle
    /\ \E inputs \in InputLists, settings \in SettingsOver :
         call = [fn |-> "check_if_all_inputs_supplied", at |-> "loop",
                 args |-> [inputs |-> inputs, settings |-> settings],
                 locals |-> [all_inputs_supplied |-> TRUE, i |-> 1,
                             given |-> [inputs |-> inputs, settings |-> settings]],
                 log |-> <<>>]

\* the loop keeping only the answer for the last input
ValidateInputLastWins ==
    /\ call.fn = "check_if_all_inputs_supplied"
    /\ call.at = "loop"
    /\ call.locals.i <= Len(call.args.inputs)
    /\ LET input == call.args.inputs[call.locals.i] IN
       IF input \notin DOMAIN call.args.settings
       THEN call' = [call EXCEPT
                       !.log = Append(@, [ev |-> "error", arg |-> input]),
                       !.locals.all_inputs_supplied = FALSE,
                       !.locals.i = @ + 1]
       ELSE call' = [call EXCEPT
                       !.locals.all_inputs_supplied = TRUE,
                       !.locals.i = @ + 1]
    /\ UNCHANGED run_vars

\* one iteration of "for input in inputs": an input that is no key of
\* settings is reported and clears all_inputs_supplied
ValidateInput ==
    /\ call.fn = "check_if_all_inputs_supplied"
    /\ call.at = "loop"
    /\ call.locals.i <= Len(call.args.inputs)
    /\ LET input == call.args.inputs[call.locals.i] IN
       IF input \notin DOMAIN call.args.settings
       THEN call' = [call EXCEPT
                       !.log = Append(@, [ev |-> "error", arg |-> input]),
                       !.locals.all_inputs_supplied = FALSE,
                       !.locals.i = @ + 1]
       ELSE call' = [call EXCEPT !.locals.i = @ + 1]
    /\ UNCHANGED run_vars

\* return all_inputs_supplied
ValidateReturn ==
    /\ call.fn = "check_if_all_inputs_supplied"
    /\ call.at = "loop"
    /\ call.locals.i > Len(call.args.inputs)
    /\ call' = [call EXCEPT !.at = "return"]
    /\ UNCHANGED run_vars

NextValidate ==
    \/ ValidateInput
    \/ ValidateReturn

SpecValidate == InitValidate /\ [][NextValidate]_vars

\* the elements of a list
Range(seq) == { seq[k] : k \in 1..Len(seq) }

\* C14: check_if_all_inputs_supplied returns True exactly when every input
\* is a key of the settings, as main takes it to; it reports the inputs that
\* are no keys, each once and no other; and both arguments are as given
C14_ValidationExact ==
    /\ call.args = call.locals.given
    /\ call.at = "return" =>
          LET inputs == Range(call.args.inputs)
              keys == DOMAIN call.args.settings
          IN /\ call.locals.all_inputs_supplied <=> inputs \subseteq keys
             /\ call.locals.all_inputs_supplied
                    = check_if_all_inputs_supplied(inputs, call.args.settings)
             /\ inputs = {} => call.locals.all_inputs_supplied
             /\ { call.log[k].arg : k \in 1..Len(call.log) } = inputs \ keys
             /\ Len(call.log) = Cardinality(inputs \ keys)

\* the function returned False for three inputs of which the first and the
\* last are supplied, and reported the one that is missing
C14_Witness ==
    /\ call.at = "return"
    /\ Len(call.args.inputs) = 3
    /\ call.args.inputs[1] \in DOMAIN call.args.settings
    /\ call.args.inputs[3] \in DOMAIN call.args.settings
    /\ ~call.locals.all_inputs_supplied
    /\ Len(call.log) = 1
    /\ call.log[1].arg = call.args.inputs[2]

(* ------------------------------ sub_conf ------------------------------ *)

MaxLen == 5

\* the characters templates are written in
TemplateChars == {"{", "}", "a", "0", " "}

Templates == SeqsUpTo(TemplateChars, MaxLen)

\* a setting value without braces
PlainValue == <<"0">>

\* the settings a template is substituted with: every token the extractor
\* finds in it is a key, mapped to a plain value or to its own "{k}"
ConfsFor(s) ==
    { [k \in findall(s) |-> PlainValue],
      [k \in findall(s) |-> <<"{">> \o k \o <<"}">>] }

InitSubst ==
    /\ RunIdle
    /\ \E s \in Templates :
         \E conf \in ConfsFor(s) :
            call = [fn |-> "sub_conf", at |-> "call",
                    args |-> [s |-> s, conf |-> conf],
                    locals |-> [result |-> FormatOk(<<>>)],
                    log |-> <<>>]

\* return s.format(**conf), or the exception it raises
SubConf ==
    /\ call.fn = "sub_conf"
    /\ call.at = "call"
    /\ LET r == sub_conf(call.args.s, call.args.conf) IN
       call' = [call EXCEPT !.at = IF r.ok THEN "return" ELSE "raised",
                            !.locals.result = r]
    /\ UNCHANGED run_vars

NextSubst == SubConf

SpecSubst == InitSubst /\ [][NextSubst]_vars

\* every token found in the template is a key of the settings
PassedValidation(s, conf) == check_if_all_inputs_supplied(findall(s), conf)

\* no value of the settings contains a brace
BraceFreeValues(conf) ==
    \A k \in DOMAIN conf : \A j \in 1..Len(conf[k]) : conf[k][j] \notin Braces

\* each key k of the settings is mapped to the text "{k}"
IdentityValues(conf) ==
    \A k \in DOMAIN conf : conf[k] = <<"{">> \o k \o <<"}">>

\* C15: when the template passed validation against settings whose values
\* hold no brace, the string sub_conf returns has no {token} pattern left
C15_NoTokenRemains ==
    ( /\ call.fn = "sub_conf"
      /\ call.at = "return"
      /\ PassedValidation(call.args.s, call.args.conf)
      /\ BraceFreeValues(call.args.conf) )
    => findall(call.locals.result.out) = {}

\* C16: the string sub_conf returns for a template and the identity settings
\* of its tokens is the template, character for character
C16_IdentityRoundTrip ==
    ( /\ call.fn = "sub_conf"
      /\ call.at = "return"
      /\ PassedValidation(call.args.s, call.args.conf)
      /\ IdentityValues(call.args.conf) )
    => call.locals.result.out = call.args.s

====
